---------------------------- MODULE Spec2Model ----------------------------
(***************************************************************************)
(* Model of .github/include/list-integration-tests.py: the script that     *)
(* reads CI-Test-Kernel trailers from the commits since the merge-base and *)
(* prints the integration-test matrix.                                     *)
(*                                                                         *)
(* Text is modelled as a sequence of tokens.  A token is an indivisible    *)
(* piece of text: the characters the script looks at (":", " ", "\n") and  *)
(* the words it compares against are tokens of their own; every other word *)
(* is an opaque token.  The empty string is the empty sequence.            *)
(***************************************************************************)
EXTENDS Integers, Sequences, FiniteSets, TLC

----------------------------------------------------------------------------
(* Tokens *)

COLON == ":"
SP == " "
NL == "\n"
KEY == "CI-Test-Kernel"
SENTINEL == "---ENDOFCOMMIT---"
P2DQ_BROKEN == "stable/6_12"
WORD == "for-next"
NOTE == "note"

(* The literal "CI-Test-Kernel:" of line 83. *)
TrailerPrefix == <<KEY, COLON>>

(* The kernel on which scx_p2dq is skipped (line 126). *)
P2dqBrokenKernel == <<P2DQ_BROKEN>>

----------------------------------------------------------------------------
(* Python's str operations, on token sequences *)

IsSpace(t) == t \in {SP, NL}

RECURSIVE LStrip(_)
LStrip(s) ==
    IF s = <<>> THEN s
    ELSE IF IsSpace(Head(s)) THEN LStrip(Tail(s)) ELSE s

RECURSIVE RStrip(_)
RStrip(s) ==
    IF s = <<>> THEN s
    ELSE IF IsSpace(s[Len(s)]) THEN RStrip(SubSeq(s, 1, Len(s) - 1)) ELSE s

(* str.strip() *)
Strip(s) == RStrip(LStrip(s))

(* t in s *)
Contains(s, t) == \E i \in 1..Len(s) : s[i] = t

(* s.find(t), 1-based; 0 when absent *)
Find(s, t) ==
    IF Contains(s, t)
    THEN CHOOSE i \in 1..Len(s) : s[i] = t /\ \A j \in 1..(i - 1) : s[j] # t
    ELSE 0

(* s.split(t): the pieces between the occurrences of t *)
RECURSIVE Split(_, _)
Split(s, t) ==
    LET i == Find(s, t)
    IN  IF i = 0 THEN <<s>>
        ELSE <<SubSeq(s, 1, i - 1)>> \o Split(SubSeq(s, i + 1, Len(s)), t)

(* s.split(t, 1)[1]: what follows the first t (s contains t) *)
AfterFirst(s, t) == SubSeq(s, Find(s, t) + 1, Len(s))

(* s.startswith(p) *)
StartsWith(s, p) == Len(s) >= Len(p) /\ SubSeq(s, 1, Len(p)) = p

(* sep.join(parts) *)
RECURSIVE Join(_, _)
Join(sep, parts) ==
    IF parts = <<>> THEN <<>>
    ELSE IF Len(parts) = 1 THEN parts[1]
    ELSE parts[1] \o sep \o Join(sep, Tail(parts))

----------------------------------------------------------------------------
(* git, as the script invokes it *)

(* ["git", "merge-base", "HEAD", ref] *)
MergeBaseArgv(ref) == <<"git", "merge-base", "HEAD", ref>>

(* ["git", "log", "--format=%B%n---ENDOFCOMMIT---", log_range] *)
LogArgv(log_range) == <<"git", "log", "--format=%B%n---ENDOFCOMMIT---", log_range>>

(* The ref the merge-base is taken against: origin/main when GITHUB_BASE_REF *)
(* is unset or empty (not base_ref), origin/<base_ref> otherwise.            *)
BaseRefMutant(base_ref) ==
    IF ~base_ref.set THEN <<"origin/", "main">> ELSE <<"origin/">> \o base_ref.val

BaseRef(base_ref) ==
    IF ~base_ref.set \/ base_ref.val = <<>>
    THEN <<"origin/", "main">>
    ELSE <<"origin/">> \o base_ref.val

(* log_range = f"{merge_base}..HEAD", merge_base the stripped stdout *)
LogRange(merge_base_stdout) == Strip(merge_base_stdout) \o <<"..HEAD">>

(* What git log prints for --format=%B%n---ENDOFCOMMIT---: per commit its  *)
(* message, a newline, the sentinel, and the line terminator.              *)
RECURSIVE GitLogStdout(_)
GitLogStdout(msgs) ==
    IF msgs = <<>> THEN <<>>
    ELSE Head(msgs) \o <<NL, SENTINEL, NL>> \o GitLogStdout(Tail(msgs))

----------------------------------------------------------------------------
(* Trailer extraction, lines 54-92 *)

(* The backward scan of one commit's lines, from line i down to line 1. *)
RECURSIVE ScanTrailers(_, _)
ScanTrailers(lines, i) ==
    IF i = 0 THEN {}
    ELSE LET line == Strip(lines[i])
         IN  IF line = <<>> THEN ScanTrailers(lines, i - 1)
             ELSE IF ~Contains(line, COLON) THEN {}
             ELSE (IF StartsWith(line, TrailerPrefix)
                   THEN {Strip(AfterFirst(line, COLON))}
                   ELSE {})
                  \cup ScanTrailers(lines, i - 1)

(* One element of commit_messages: stripped, skipped when empty, else scanned. *)
BlockTrailers(block) ==
    LET commit_message == Strip(block)
    IN  IF commit_message = <<>> THEN {}
        ELSE LET lines == Split(commit_message, NL)
             IN  ScanTrailers(lines, Len(lines))

(* The set returned for git log's stdout. *)
ParseTrailers(out) ==
    IF Strip(out) = <<>> THEN {}
    ELSE LET commit_messages == Split(out, SENTINEL)
         IN  UNION {BlockTrailers(commit_messages[i]) : i \in 1..Len(commit_messages)}

----------------------------------------------------------------------------
(* Matrix rows, lines 107-135 *)

SingleVariant ==
    <<"scx_bpfland", "scx_chaos", "scx_lavd", "scx_rlfifo",
      "scx_rustland", "scx_rusty", "scx_tickless">>

TopologyFlags == << <<"--disable-topology=false">>, <<"--disable-topology=true">> >>
AntistallFlags == << <<>>, <<"--disable-antistall">> >>

Row(name, flags, kernel_name) == [name |-> name, flags |-> flags, kernel |-> kernel_name]

(* kernel_name = "" if kernel == default_kernel else kernel *)
KernelNameMutant(kernel, default) == kernel

KernelName(kernel, default) == IF kernel = default THEN <<>> ELSE kernel

(* " ".join(flags) for one pair of itertools.product *)
LayeredFlagsFiltered(a, b) == Join(<<SP>>, SelectSeq(<<a, b>>, LAMBDA f : f # <<>>))

LayeredFlags(a, b) == Join(<<SP>>, <<a, b>>)

(* itertools.product of the two flag lists, in its order: the rows of scx_layered *)
LayeredRows(kernel_name) ==
    [n \in 1..(Len(TopologyFlags) * Len(AntistallFlags)) |->
        LET a == TopologyFlags[((n - 1) \div Len(AntistallFlags)) + 1]
            b == AntistallFlags[((n - 1) % Len(AntistallFlags)) + 1]
        IN  Row("scx_layered", LayeredFlags(a, b), kernel_name)]

(* if kernel != "stable/6_12": the scx_p2dq row *)
P2dqRowsMutant(kernel, kernel_name) ==
    IF kernel_name # P2dqBrokenKernel THEN <<Row("scx_p2dq", <<>>, kernel_name)>> ELSE <<>>

P2dqRows(kernel, kernel_name) ==
    IF kernel # P2dqBrokenKernel THEN <<Row("scx_p2dq", <<>>, kernel_name)>> ELSE <<>>

(* The rows one iteration of the kernel loop appends. *)
KernelRows(kernel, default) ==
    LET kernel_name == KernelName(kernel, default)
    IN  [n \in 1..Len(SingleVariant) |-> Row(SingleVariant[n], <<>>, kernel_name)]
        \o P2dqRows(kernel, kernel_name)
        \o LayeredRows(kernel_name)

(* kernels_to_test = {default_kernel}; kernels_to_test.update(trailer_kernels) *)
KernelsToTestMutant(default, trailers) == IF trailers = {} THEN {default} ELSE trailers

KernelsToTest(default, trailers) == {default} \cup trailers

(* The exit status of the interpreter when CalledProcessError reaches the  *)
(* top of the script: main() is called with no handler around it.          *)
UncaughtExitMutant(returncode) == returncode

UncaughtExit(returncode) == 1

(* sys.exit(1) of the usage error *)
UsageExit == 1

(* len(sys.argv) != 2, args the arguments after the script's name *)
WrongArgCountMutant(args) == Len(args) < 1

WrongArgCount(args) == Len(args) + 1 # 2

----------------------------------------------------------------------------
(* Inputs *)

MaxCommits == 2
MaxLines == 3

(* sys.argv[1:] *)
DefaultKernels == {<<>>, <<WORD>>, P2dqBrokenKernel}
ArgLists == {<<>>} \cup {<<d>> : d \in DefaultKernels} \cup {<<d, <<WORD>>>> : d \in DefaultKernels}

(* os.environ.get("GITHUB_BASE_REF"): None, "" or a branch name *)
EnvValues ==
    {[set |-> FALSE, val |-> <<>>], [set |-> TRUE, val |-> <<>>],
     [set |-> TRUE, val |-> <<"release">>]}

(* What git merge-base prints: the commit id and a newline. *)
MergeBaseOutputs == {<<"c0ffee", NL>>, <<"f00d", NL>>}

(* Non-zero exit statuses of git. *)
GitFailures == {1, 128}

(* Commit messages of the range. *)
Messages ==
    { <<NOTE>>,
      <<NOTE, NL, NL, KEY, COLON, SP, P2DQ_BROKEN>>,
      <<NOTE, NL, NL, KEY, COLON, SP, WORD, NL, "Signed-off-by", COLON, SP, NOTE>>,
      <<NOTE, NL, NL, KEY, COLON, SP, WORD, NL, NOTE>>,
      <<NOTE, NL, NL, KEY, COLON>> }

SeqsUpTo(S, n) == UNION {[1..k -> S] : k \in 0..n}

CommitRanges == SeqsUpTo(Messages, MaxCommits)

----------------------------------------------------------------------------
(* State *)

VARIABLES
    pc,               \* where the script is
    argv,             \* sys.argv[1:]
    env,              \* GITHUB_BASE_REF
    commits,          \* the messages of merge_base..HEAD, newest first
    calls,            \* the subprocess.run calls made: argv, returncode, stdout
    default_kernel,
    trailer_kernels,
    kernels_to_test,
    todo,             \* the kernels the for loop has not visited
    visited,          \* the kernels the for loop has visited, in its order
    matrix,
    stdout,           \* the lines printed to standard output
    exit_status       \* -1 while running

vars == <<pc, argv, env, commits, calls, default_kernel, trailer_kernels,
          kernels_to_test, todo, visited, matrix, stdout, exit_status>>

Call(a, rc, out) == [argv |-> a, returncode |-> rc, stdout |-> out]

Init ==
    /\ pc = "main"
    /\ argv \in ArgLists
    /\ env \in EnvValues
    /\ commits \in CommitRanges
    /\ calls = <<>>
    /\ default_kernel = <<>>
    /\ trailer_kernels = {}
    /\ kernels_to_test = {}
    /\ todo = {}
    /\ visited = <<>>
    /\ matrix = <<>>
    /\ stdout = <<>>
    /\ exit_status = -1

(* lines 96-98: the usage error *)
UsageError ==
    /\ pc = "main"
    /\ WrongArgCount(argv)
    /\ pc' = "exited"
    /\ exit_status' = UsageExit
    /\ UNCHANGED <<argv, env, commits, calls, default_kernel, trailer_kernels,
                   kernels_to_test, todo, visited, matrix, stdout>>

(* lines 100-102: default_kernel = sys.argv[1], then the extraction starts *)
Start ==
    /\ pc = "main"
    /\ ~WrongArgCount(argv)
    /\ default_kernel' = argv[1]
    /\ pc' = "merge_base"
    /\ UNCHANGED <<argv, env, commits, calls, trailer_kernels,
                   kernels_to_test, todo, visited, matrix, stdout, exit_status>>

(* lines 14-42: git merge-base succeeds *)
MergeBaseOk ==
    /\ pc = "merge_base"
    /\ \E out \in MergeBaseOutputs :
          calls' = Append(calls, Call(MergeBaseArgv(BaseRef(env)), 0, out))
    /\ pc' = "log"
    /\ UNCHANGED <<argv, env, commits, default_kernel, trailer_kernels,
                   kernels_to_test, todo, visited, matrix, stdout, exit_status>>

(* lines 14-42: git merge-base fails, check=True raises *)
MergeBaseFail ==
    /\ pc = "merge_base"
    /\ \E rc \in GitFailures :
          /\ calls' = Append(calls, Call(MergeBaseArgv(BaseRef(env)), rc, <<>>))
          /\ exit_status' = UncaughtExit(rc)
    /\ pc' = "exited"
    /\ UNCHANGED <<argv, env, commits, default_kernel, trailer_kernels,
                   kernels_to_test, todo, visited, matrix, stdout>>

(* git log fails and the failure is not raised: the script goes on with no *)
(* trailers.                                                               *)
LogFailIgnored ==
    /\ pc = "log"
    /\ \E rc \in GitFailures :
          calls' = Append(calls,
              Call(LogArgv(LogRange(calls[Len(calls)].stdout)), rc, <<>>))
    /\ trailer_kernels' = {}
    /\ kernels_to_test' = KernelsToTest(default_kernel, {})
    /\ todo' = KernelsToTest(default_kernel, {})
    /\ pc' = "build"
    /\ UNCHANGED <<argv, env, commits, default_kernel, visited, matrix,
                   stdout, exit_status>>

(* lines 44-52: git log fails, check=True raises *)
LogFail ==
    /\ pc = "log"
    /\ \E rc \in GitFailures :
          /\ calls' = Append(calls,
                 Call(LogArgv(LogRange(calls[Len(calls)].stdout)), rc, <<>>))
          /\ exit_status' = UncaughtExit(rc)
    /\ pc' = "exited"
    /\ UNCHANGED <<argv, env, commits, default_kernel, trailer_kernels,
                   kernels_to_test, todo, visited, matrix, stdout>>

(* lines 44-107: git log succeeds, the trailers are extracted and merged   *)
(* with the default kernel                                                 *)
LogOk ==
    /\ pc = "log"
    /\ LET out == GitLogStdout(commits)
           found == ParseTrailers(out)
       IN  /\ calls' = Append(calls,
                  Call(LogArgv(LogRange(calls[Len(calls)].stdout)), 0, out))
           /\ trailer_kernels' = found
           /\ kernels_to_test' = KernelsToTest(default_kernel, found)
           /\ todo' = KernelsToTest(default_kernel, found)
    /\ pc' = "build"
    /\ UNCHANGED <<argv, env, commits, default_kernel, visited, matrix,
                   stdout, exit_status>>

(* lines 109-135: one iteration of the kernel loop, in the set's order *)
BuildKernel ==
    /\ pc = "build"
    /\ \E kernel \in todo :
          /\ matrix' = matrix \o KernelRows(kernel, default_kernel)
          /\ todo' = todo \ {kernel}
          /\ visited' = Append(visited, kernel)
    /\ UNCHANGED <<pc, argv, env, commits, calls, default_kernel, trailer_kernels,
                   kernels_to_test, stdout, exit_status>>

(* line 137: print(f"matrix={json.dumps(matrix)}"), and the script ends *)
PrintMatrix ==
    /\ pc = "build"
    /\ todo = {}
    /\ stdout' = Append(stdout, <<"matrix=", matrix>>)
    /\ pc' = "exited"
    /\ exit_status' = 0
    /\ UNCHANGED <<argv, env, commits, calls, default_kernel, trailer_kernels,
                   kernels_to_test, todo, visited, matrix>>

Next ==
    \/ UsageError
    \/ Start
    \/ MergeBaseOk
    \/ MergeBaseFail
    \/ LogOk
    \/ LogFail
    \/ BuildKernel
    \/ PrintMatrix

Spec == Init /\ [][Next]_vars

----------------------------------------------------------------------------
(* The extraction alone, over a wider set of messages for the newest       *)
(* commit: the script has passed the argument check and git merge-base has *)
(* succeeded.                                                              *)

RichLines ==
    { <<>>,
      <<SP>>,
      <<NOTE>>,
      <<"Signed-off-by", COLON, SP, NOTE>>,
      <<KEY, COLON, SP, WORD>>,
      <<SP, KEY, COLON, P2DQ_BROKEN, SP>>,
      <<KEY, COLON, WORD, COLON, NOTE>>,
      <<NOTE, SP, KEY, COLON, SP, WORD>>,
      <<KEY, COLON, SP, WORD, SENTINEL>>,
      <<SENTINEL>> }

RichMessages == {Join(<<NL>>, ls) : ls \in SeqsUpTo(RichLines, MaxLines) \ {<<>>}}

ParseRanges ==
    {<<>>} \cup
    {<<m>> \o older : m \in RichMessages, older \in SeqsUpTo(Messages, MaxCommits - 1)}

InitParse ==
    /\ pc = "log"
    /\ argv = << <<WORD>> >>
    /\ env \in EnvValues
    /\ commits \in ParseRanges
    /\ \E out \in MergeBaseOutputs : calls = <<Call(MergeBaseArgv(BaseRef(env)), 0, out)>>
    /\ default_kernel = <<WORD>>
    /\ trailer_kernels = {}
    /\ kernels_to_test = {}
    /\ todo = {}
    /\ visited = <<>>
    /\ matrix = <<>>
    /\ stdout = <<>>
    /\ exit_status = -1

NextParse ==
    \/ LogOk
    \/ LogFail

SpecParse == InitParse /\ [][NextParse]_vars

----------------------------------------------------------------------------
(* Vocabulary of the properties *)

ExitedOk == pc = "exited" /\ exit_status = 0

(* A run aborted by a failed subprocess: the last call returned non-zero. *)
SubprocessFailed == pc = "exited" /\ calls # <<>> /\ calls[Len(calls)].returncode # 0

(* The number of rows stated for one kernel: 7 + 4, and scx_p2dq's. *)
StatedRows(kernel) == IF kernel = <<P2DQ_BROKEN>> THEN 11 ELSE 12

RECURSIVE StatedTotal(_)
StatedTotal(kernels) ==
    IF kernels = <<>> THEN 0 ELSE StatedRows(Head(kernels)) + StatedTotal(Tail(kernels))

RECURSIVE StatedTotalOfSet(_)
StatedTotalOfSet(kernels) ==
    IF kernels = {} THEN 0
    ELSE LET k == CHOOSE x \in kernels : TRUE
         IN  StatedRows(k) + StatedTotalOfSet(kernels \ {k})

(* The rows of the i-th kernel visited, by position in the matrix. *)
RowsOfVisit(i) ==
    LET before == StatedTotal(SubSeq(visited, 1, i - 1))
    IN  SubSeq(matrix, before + 1, before + StatedRows(visited[i]))

CountRows(rows, names) == Cardinality({n \in 1..Len(rows) : rows[n].name \in names})

SingleVariantNames ==
    {"scx_bpfland", "scx_chaos", "scx_lavd", "scx_rlfifo",
     "scx_rustland", "scx_rusty", "scx_tickless"}

LayeredRowsOf(rows) == SelectSeq(rows, LAMBDA r : r.name = "scx_layered")

TopologyFalse == "--disable-topology=false"
TopologyTrue == "--disable-topology=true"
Antistall == "--disable-antistall"

----------------------------------------------------------------------------
(* C1: the set the extraction returns holds exactly the values v for which *)
(* some commit message of the range has a line (whitespace around it        *)
(* dropped) that starts with CI-Test-Kernel:, whose remainder after the     *)
(* first colon, stripped, is v, and below which every non-blank line of     *)
(* that message contains a colon.                                           *)
StatedTrailers(msgs) ==
    UNION {
        LET lines == Split(msgs[c], NL)
        IN  { Strip(AfterFirst(Strip(lines[i]), COLON)) :
                i \in { n \in 1..Len(lines) :
                          /\ StartsWith(Strip(lines[n]), <<KEY, COLON>>)
                          /\ \A j \in (n + 1)..Len(lines) :
                                Strip(lines[j]) # <<>> => Contains(lines[j], COLON) } }
        : c \in 1..Len(msgs) }

C1_TrailersAsStated == pc = "build" => trailer_kernels = StatedTrailers(commits)

(* The same statement for ranges in which no message holds the sentinel:   *)
(* not C1, which speaks of every message, but what the extraction does do. *)
TrailersAsStatedWithoutSentinel ==
    (pc = "build" /\ \A c \in 1..Len(commits) : ~Contains(commits[c], SENTINEL))
        => trailer_kernels = StatedTrailers(commits)

(* C2: for each kernel of the kernel set the matrix has exactly 7          *)
(* single-variant rows, 4 scx_layered rows and one scx_p2dq row, none for  *)
(* stable/6_12, so the matrix has 12 rows per kernel, 11 for stable/6_12.  *)
C2_MatrixSize ==
    /\ Len(matrix) = StatedTotal(visited)
    /\ \A i \in 1..Len(visited) :
          LET rows == RowsOfVisit(i)
          IN  /\ CountRows(rows, SingleVariantNames) = 7
              /\ CountRows(rows, {"scx_layered"}) = 4
              /\ CountRows(rows, {"scx_p2dq"}) = (IF visited[i] = <<P2DQ_BROKEN>> THEN 0 ELSE 1)
    /\ ExitedOk =>
          /\ {visited[i] : i \in 1..Len(visited)} = kernels_to_test
          /\ Len(visited) = Cardinality(kernels_to_test)
          /\ Len(matrix) = StatedTotalOfSet(kernels_to_test)

C2_Witness ==
    /\ ExitedOk
    /\ default_kernel = <<P2DQ_BROKEN>>
    /\ Cardinality(kernels_to_test) = 2
    /\ Len(matrix) = 23

(* C3 as stated: the flags of every scx_layered row are the non-empty      *)
(* chosen flags joined by a space, so the topology flag alone when the     *)
(* antistall choice is empty.                                              *)
C3_FlagsFilteredJoin ==
    \A n \in 1..Len(matrix) :
        matrix[n].name = "scx_layered" =>
            matrix[n].flags \in
                { <<TopologyFalse>>, <<TopologyFalse, SP, Antistall>>,
                  <<TopologyTrue>>, <<TopologyTrue, SP, Antistall>> }

(* C3 amended: the flags of every scx_layered row are the two chosen flag  *)
(* strings joined by one space, the empty one included: with the antistall *)
(* choice empty the flags are the topology flag followed by one space.     *)
(* Each kernel gets the four combinations, in the product's order.         *)
C3_FlagsJoined ==
    /\ Len(matrix) = StatedTotal(visited)
    /\ \A i \in 1..Len(visited) :
          LET layered == LayeredRowsOf(RowsOfVisit(i))
          IN  [n \in 1..Len(layered) |-> layered[n].flags] =
                << <<TopologyFalse, SP>>, <<TopologyFalse, SP, Antistall>>,
                   <<TopologyTrue, SP>>, <<TopologyTrue, SP, Antistall>> >>

C3_Witness ==
    /\ ExitedOk
    /\ \E n \in 1..Len(matrix) :
          matrix[n].name = "scx_layered" /\ matrix[n].flags = <<TopologyFalse, SP>>

(* C4 as stated: a run aborted by a subprocess that exited with status s   *)
(* exits with status s.                                                    *)
C4_StatusPropagated == SubprocessFailed => exit_status = calls[Len(calls)].returncode

(* C4 amended: a run aborted by a subprocess that exited with a non-zero   *)
(* status s exits with status 1, whatever s is, and prints nothing.        *)
C4_ExitsWithOne == SubprocessFailed => (exit_status = 1 /\ stdout = <<>>)

C4_Witness == SubprocessFailed /\ calls[Len(calls)].returncode = 128 /\ Len(calls) = 2

(* C5: standard output holds nothing or exactly one matrix= line with the  *)
(* complete matrix of every kernel of the kernel set, written only after   *)
(* merge-base and then log both succeeded; a failed run writes nothing.    *)
C5_AllOrNothing ==
    /\ Len(stdout) <= 1
    /\ stdout # <<>> =>
          /\ stdout[1] = <<"matrix=", matrix>>
          /\ exit_status = 0
          /\ Len(calls) = 2
          /\ calls[1].argv[2] = "merge-base" /\ calls[1].returncode = 0
          /\ calls[2].argv[2] = "log" /\ calls[2].returncode = 0
          /\ {visited[i] : i \in 1..Len(visited)} = kernels_to_test
          /\ Len(stdout[1][2]) = StatedTotalOfSet(kernels_to_test)
    /\ (pc = "exited" /\ exit_status # 0) => stdout = <<>>
    /\ (\E n \in 1..Len(calls) : calls[n].returncode # 0) => stdout = <<>>

C5_Witness ==
    /\ Len(stdout) = 1
    /\ Cardinality(kernels_to_test) = 3
    /\ Len(stdout[1][2]) = 35

(* C6: started with any number of arguments other than one, the script     *)
(* exits with status 1, prints nothing and runs no subprocess; nothing is  *)
(* done before the argument count is checked.                              *)
C6_UsageError ==
    /\ pc = "main" => (calls = <<>> /\ stdout = <<>>)
    /\ Len(argv) # 1 =>
          /\ calls = <<>>
          /\ stdout = <<>>
          /\ pc \in {"main", "exited"}
          /\ pc = "exited" => exit_status = 1

C6_Witness == pc = "exited" /\ Len(argv) = 2 /\ exit_status = 1 /\ calls = <<>>

(* C7: every row emitted for a kernel has the empty kernel field when the  *)
(* kernel is the default and the kernel itself otherwise.                  *)
C7_KernelLabel ==
    /\ Len(matrix) = StatedTotal(visited)
    /\ \A i \in 1..Len(visited) :
          LET rows == RowsOfVisit(i)
          IN  \A n \in 1..Len(rows) :
                 /\ visited[i] = default_kernel => rows[n].kernel = <<>>
                 /\ visited[i] # default_kernel => rows[n].kernel = visited[i]

C7_Witness ==
    /\ ExitedOk
    /\ default_kernel = <<WORD>>
    /\ kernels_to_test = {<<WORD>>, <<P2DQ_BROKEN>>}
    /\ \E n \in 1..Len(matrix) : matrix[n].kernel = <<>>
    /\ \E n \in 1..Len(matrix) : matrix[n].kernel = <<P2DQ_BROKEN>>

(* C8: the kernel set is the default united with the trailer set: it holds *)
(* the default, repeated values are one member, and an empty range gives   *)
(* an empty trailer set and the kernel set {default}, without error.       *)
C8_KernelSet ==
    pc \in {"log", "build"} \/ ExitedOk =>
        /\ default_kernel = argv[1]
        /\ pc # "log" =>
              /\ \A k \in kernels_to_test : k = default_kernel \/ k \in trailer_kernels
              /\ \A k \in trailer_kernels : k \in kernels_to_test
              /\ default_kernel \in kernels_to_test
              /\ Cardinality(kernels_to_test) =
                    Cardinality(trailer_kernels) + (IF default_kernel \in trailer_kernels THEN 0 ELSE 1)
              /\ commits = <<>> => (trailer_kernels = {} /\ kernels_to_test = {default_kernel})

C8_Witness ==
    /\ pc = "build"
    /\ Len(commits) = 2
    /\ commits[1] = commits[2]
    /\ default_kernel \in trailer_kernels
    /\ kernels_to_test = {default_kernel}

C8_WitnessEmptyRange == ExitedOk /\ commits = <<>> /\ kernels_to_test = {default_kernel}

(* C9: the merge-base is taken between HEAD and origin/<GITHUB_BASE_REF>   *)
(* when the variable is set and non-empty and between HEAD and origin/main *)
(* otherwise; a run that passes the argument check makes exactly one       *)
(* merge-base call, and the log range is <that merge-base>..HEAD.          *)
C9_DiffBase ==
    /\ Cardinality({n \in 1..Len(calls) : calls[n].argv[2] = "merge-base"}) <= 1
    /\ (Len(argv) = 1 /\ pc \in {"log", "build", "exited"}) =>
          /\ Len(calls) >= 1
          /\ calls[1].argv =
                <<"git", "merge-base", "HEAD",
                  IF env.set /\ env.val # <<>> THEN <<"origin/">> \o env.val
                                               ELSE <<"origin/", "main">> >>
    /\ Len(calls) >= 2 =>
          /\ calls[1].returncode = 0
          /\ \E id \in {"c0ffee", "f00d"} :
                /\ calls[1].stdout = <<id, NL>>
                /\ calls[2].argv = <<"git", "log", "--format=%B%n---ENDOFCOMMIT---", <<id, "..HEAD">> >>
    /\ Len(calls) <= 2

C9_Witness ==
    /\ Len(calls) = 2
    /\ env.set /\ env.val = <<>>
    /\ calls[1].argv[4] = <<"origin/", "main">>
    /\ calls[2].argv[4] = <<"f00d", "..HEAD">>

(* C10: distinct kernels of the kernel set get distinct kernel labels, so  *)
(* no two rows of the printed matrix agree in name, flags and kernel.      *)
C10_RowsDistinct ==
    ExitedOk =>
        /\ \A k1, k2 \in kernels_to_test :
              k1 # k2 => KernelName(k1, default_kernel) # KernelName(k2, default_kernel)
        /\ \A m, n \in 1..Len(matrix) : m # n => matrix[m] # matrix[n]

=============================================================================
